---- MODULE Spec2Model ----
(***************************************************************************)
(* State-machine model of the EchoChamber WebSocket client (class          *)
(* EchoChamber, the revision with the pending/confirmed subscription       *)
(* ledger, disconnect() and the guarded _flushQueue()).                    *)
(*                                                                         *)
(* The model holds one session object, the WebSocket objects it has        *)
(* created, the host's timers and the single-threaded event loop: every    *)
(* action is one public method call or one callback, run to completion.    *)
(* Listeners registered with on() are opaque: a handler records that they  *)
(* ran, they do not call back into the session.                            *)
(*                                                                         *)
(* step, ops and logs describe the call or callback that ran last and what *)
(* it did to the outside world; txCount, tracked and opened are history    *)
(* variables. None of them is read by the session operations.              *)
(***************************************************************************)
EXTENDS Integers, Sequences, FiniteSets, TLC

\* ------------------------------------------------------------------ bounds
MaxOrphans  == 1    \* replaced sockets whose close event is still to come
MaxQueue    == 2    \* longest Outbound Queue explored
MaxPub      == 1    \* number of pub() calls explored (each a fresh payload)
MaxTimers   == 1    \* reconnect timeouts pending at the same time
MaxAttempts == 1    \* largest reconnect counter explored
MaxHandlers == 1    \* handlers registered with on()
MaxFailures == 5    \* largest reconnect counter of the backoff runs

Rooms     == {"lobby"}
PubRooms  == {"lobby"}   \* the rooms pub() is called with
NoRoom    == ""      \* MessageData.room absent
NoPayload == 0       \* MessageData.payload absent
NoSocket  == "null"  \* _socket === null
Payloads  == 1..MaxPub

\* Event types: the reserved lifecycle events and the actions of inbound
\* frames that handlers are registered for.
EventTypes == {"connect", "close", "error", "message", "chat", "subscribed",
               "pong"}

\* options (constructor defaults)
ReconnectDelay      == 1000
ReconnectMultiplier == 2
MaxReconnectDelay   == 30000
DefaultOptions == [reconnectDelay      |-> ReconnectDelay,
                   reconnectMultiplier |-> ReconnectMultiplier,
                   maxReconnectDelay   |-> MaxReconnectDelay]

\* ---------------------------------------------------------------- address
\* A string is the list of its characters.
startsWith(str, prefix) ==
    /\ Len(str) >= Len(prefix)
    /\ SubSeq(str, 1, Len(prefix)) = prefix

\* _formatServerUrl(serverUrl) putting a colon after the hostname whatever
\* the port is.
formatServerUrl_AlwaysColon(address, hostname, port) ==
    IF startsWith(address, <<"/">>)
    THEN <<"w", "s", "s", ":", "/", "/">> \o hostname \o <<":">> \o port
            \o address
    ELSE address

\* _formatServerUrl(serverUrl), with window.location.hostname and
\* window.location.port
formatServerUrl(address, hostname, port) ==
    IF startsWith(address, <<"/">>)
    THEN LET portPart == IF port # <<>> THEN <<":">> \o port ELSE <<>>
         IN  <<"w", "s", "s", ":", "/", "/">> \o hostname \o portPart
                \o address
    ELSE address

\* The address the tests construct sessions with, and the location of
\* their host page.
TestUrl == <<"w", "s", ":", "/", "/", "l", "o", "c", "a", "l", "h", "o",
             "s", "t", ":", "8", "0", "8", "0">>
TestHostname == <<"l", "o", "c", "a", "l", "h", "o", "s", "t">>
NoPort == <<>>

\* ------------------------------------------------------------- wire format
\* MessageData (interface): action is mandatory, room and payload optional.
MessageData(action, room, payload) ==
    [action |-> action, room |-> room, payload |-> payload]

\* JSON.stringify(data): the serialized text of a MessageData, here the
\* tuple of its three members.
Stringify(data) == <<data.action, data.room, data.payload>>

\* A text frame that is not JSON.
Malformed == <<"This is not valid JSON!">>

\* JSON.parse(text) throws on a text that is not JSON.
ParseFails(text) == Len(text) # 3
Parse(text) == MessageData(text[1], text[2], text[3])

NoText == <<>>

\* ------------------------------------------------ effects of one handler
\* ops lists, in program order, what the handler did to the outside world:
\*   "tx"    socket.send(text) on an OPEN socket: the frame goes to the remote
\*   "drop"  socket.send(text) on a CLOSING/CLOSED socket: silently discarded
\*   "skip"  this._socket?.send(text) with _socket === null: nothing is called
\*   "throw" socket.send(text) on a CONNECTING socket: InvalidStateError
\*   "enq"   the text was pushed on _messageQueue
\*   "fire"  _triggerEvent(ev): the listeners of ev run
\*   "call"  handler number h of the list of ev was invoked
\*   "confirm" _subscribed(room) moved the room from pending to confirmed
Eff(k, f, ev) == [k |-> k, f |-> f, ev |-> ev, h |-> 0]
Call(ev, f, h) == [k |-> "call", f |-> f, ev |-> ev, h |-> h]
Log(category, message) == <<category, message>>

VARIABLES
    connectionState,        \* _connectionState
    socket,                 \* _socket: NoSocket, or the readyState of the
                            \* WebSocket object the session holds
    orphans,                \* sockets the session has closed and dropped, with
                            \* its listeners attached, not yet CLOSED
    messageQueue,           \* _messageQueue
    subscriptions,          \* _subscriptions        (confirmed rooms)
    pendingSubscriptions,   \* _pendingSubscriptions (pending rooms)
    reconnectAttempts,      \* _reconnectAttempts
    pingInterval,           \* _pingInterval !== null
    reconnectTimers,        \* setTimeout callbacks of _onClose not yet run
    reconnect,              \* options.reconnect
    options,                \* options: the reconnect delay settings
    location,               \* window.location: hostname and port
    serverUrl,              \* _serverUrl
    owed,                   \* the remote: rooms whose subscribe frame it has
                            \* got on the open connection and not answered;
                            \* followed where the remote is modelled
    intervals,              \* the host's active setInterval timers of connect()
    strays,                 \* sockets the session has dropped while they were
                            \* connecting or open, without closing them
    teardown,               \* history: "disconnect" from disconnect() to the
                            \* next connect(), "cleanup" from cleanup() to
                            \* the next call of the API or the next connect(),
                            \* else "none"
    eventHandlers,          \* _eventHandlers: length of the list of each type
    nextPayload,            \* payload of the next pub() call
    txCount,                \* history: transmissions of each publish payload
    tracked,                \* history: payloads queued by pub while not open
    opened,                 \* history: tracked payloads that have seen an open
    step,                   \* the call or callback that ran last
    ops,                    \* its effects, in program order
    logs                    \* its log entries, in program order

vars == <<connectionState, socket, orphans, messageQueue,
          subscriptions, pendingSubscriptions, reconnectAttempts,
          pingInterval, reconnectTimers, reconnect, options,
          location, serverUrl, owed, intervals, strays, teardown,
          eventHandlers, nextPayload, txCount,
          tracked, opened, step, ops, logs>>

Step(op, room, sock, text, was, delay) ==
    [op |-> op, room |-> room, sock |-> sock, text |-> text, was |-> was,
     delay |-> delay]

\* Where a room stands in the ledger.
Ledger(subs, pend, room) ==
    IF room \in subs /\ room \in pend THEN "both"
    ELSE IF room \in subs THEN "confirmed"
    ELSE IF room \in pend THEN "pending"
    ELSE "none"

\* ---------------------------------------------------------- the transport
\* A WebSocket object is known by its readyState. The session holds at most
\* one (socket); the others it has created are the orphans, which it closed
\* when it dropped them: they are CLOSING until their close event arrives.

\* WebSocket.send(text) by readiness of the socket.
socketSend(sk) ==
    IF sk = "OPEN" THEN "tx"
    ELSE IF sk = "CONNECTING" THEN "throw"
    ELSE "drop"

\* WebSocket.close() on a socket the session drops: 1 when its close event
\* is still to come, 0 when the socket was CLOSED already (or null).
socketClose(sk) == IF sk \in {"CONNECTING", "OPEN", "CLOSING"} THEN 1 ELSE 0

\* connected()
connected(sk) == sk # NoSocket /\ sk = "OPEN"

\* WebSocket.close(): the readyState it leaves the socket in.
readyAfterClose(sk) == IF sk \in {"CONNECTING", "OPEN"} THEN "CLOSING" ELSE sk

\* A socket the session stops referencing in readiness sk: 1 when it is
\* still connecting or open.
dropsLive(sk) == IF sk \in {"CONNECTING", "OPEN"} THEN 1 ELSE 0

\* clearInterval(this._pingInterval) when the handle is not null.
clearPing(handle, active) == IF handle THEN active - 1 ELSE active

\* ------------------------------------------------------ session operations
\* The operations below thread a record S of the session fields they touch
\* (subscriptions, pendingSubscriptions, messageQueue) and of the effects
\* and log entries produced so far (ops, logs); sk is _socket at the time of
\* the call.

\* send(data) testing only that a socket is held, not that it is open.
send_AnySocket(S, sk, data) ==
    IF sk # NoSocket
    THEN [S EXCEPT !.logs = Append(@, Log("Client", "Sending message")),
                   !.ops  = Append(@, Eff(socketSend(sk), Stringify(data), ""))]
    ELSE [S EXCEPT !.logs = Append(@, Log("Client", "Queueing message")),
                   !.messageQueue = Append(@, Stringify(data)),
                   !.ops  = Append(@, Eff("enq", Stringify(data), ""))]

\* send(data)
send(S, sk, data) ==
    IF sk # NoSocket /\ sk = "OPEN"
    THEN [S EXCEPT !.logs = Append(@, Log("Client", "Sending message")),
                   !.ops  = Append(@, Eff(socketSend(sk), Stringify(data), ""))]
    ELSE [S EXCEPT !.logs = Append(@, Log("Client", "Queueing message")),
                   !.messageQueue = Append(@, Stringify(data)),
                   !.ops  = Append(@, Eff("enq", Stringify(data), ""))]

\* _flushQueue() transmitting the newest entry first.
flushQueue_Reversed(S, sk) ==
    LET q == S.messageQueue IN
    IF sk # NoSocket /\ q # <<>> /\ socketSend(sk) = "throw"
    THEN [S EXCEPT !.ops = Append(@, Eff("throw", Head(q), "InvalidStateError"))]
    ELSE [S EXCEPT
            !.ops  = @ \o [i \in 1..Len(q) |->
                            Eff(IF sk = NoSocket THEN "skip" ELSE socketSend(sk),
                                q[Len(q) + 1 - i], "")],
            !.logs = @ \o [i \in 1..Len(q) |-> Log("Info", "Flushed message from queue")],
            !.messageQueue = IF sk # NoSocket /\ sk = "OPEN" THEN <<>> ELSE @]

\* _flushQueue() that never empties the queue.
flushQueue_KeepsQueue(S, sk) ==
    LET q == S.messageQueue IN
    IF sk # NoSocket /\ q # <<>> /\ socketSend(sk) = "throw"
    THEN [S EXCEPT !.ops = Append(@, Eff("throw", Head(q), "InvalidStateError"))]
    ELSE [S EXCEPT
            !.ops  = @ \o [i \in 1..Len(q) |->
                            Eff(IF sk = NoSocket THEN "skip" ELSE socketSend(sk),
                                q[i], "")],
            !.logs = @ \o [i \in 1..Len(q) |-> Log("Info", "Flushed message from queue")]]

\* _flushQueue() that empties the queue whatever the connection (the
\* earlier revision of the method).
flushQueue_AlwaysClears(S, sk) ==
    LET q == S.messageQueue IN
    IF sk # NoSocket /\ q # <<>> /\ socketSend(sk) = "throw"
    THEN [S EXCEPT !.ops = Append(@, Eff("throw", Head(q), "InvalidStateError"))]
    ELSE [S EXCEPT
            !.ops  = @ \o [i \in 1..Len(q) |->
                            Eff(IF sk = NoSocket THEN "skip" ELSE socketSend(sk),
                                q[i], "")],
            !.logs = @ \o [i \in 1..Len(q) |-> Log("Info", "Flushed message from queue")],
            !.messageQueue = <<>>]

\* _flushQueue()
flushQueue(S, sk) ==
    LET q == S.messageQueue IN
    IF sk # NoSocket /\ q # <<>> /\ socketSend(sk) = "throw"
    THEN [S EXCEPT !.ops = Append(@, Eff("throw", Head(q), "InvalidStateError"))]
    ELSE [S EXCEPT
            !.ops  = @ \o [i \in 1..Len(q) |->
                            Eff(IF sk = NoSocket THEN "skip" ELSE socketSend(sk),
                                q[i], "")],
            !.logs = @ \o [i \in 1..Len(q) |-> Log("Info", "Flushed message from queue")],
            !.messageQueue = IF sk # NoSocket /\ sk = "OPEN" THEN <<>> ELSE @]

\* _subscribed(room) confirming a room that is not pending.
subscribed_AnyRoom(S, room) ==
    [S EXCEPT !.pendingSubscriptions = @ \ {room},
              !.subscriptions = @ \cup {room},
              !.ops = Append(@, Eff("confirm", room, "")),
              !.logs = Append(@, Log("User", "Subscription confirmed"))]

\* _subscribed(room) confirming every room that is not confirmed yet.
subscribed_LateAck(S, room) ==
    IF room \notin S.subscriptions
    THEN [S EXCEPT !.pendingSubscriptions = @ \ {room},
                   !.subscriptions = @ \cup {room},
                   !.ops = Append(@, Eff("confirm", room, "")),
                   !.logs = Append(@, Log("User", "Subscription confirmed"))]
    ELSE S

\* _subscribed(room)
subscribed(S, room) ==
    IF room \in S.pendingSubscriptions
    THEN [S EXCEPT !.pendingSubscriptions = @ \ {room},
                   !.subscriptions = @ \cup {room},
                   !.ops = Append(@, Eff("confirm", room, "")),
                   !.logs = Append(@, Log("User", "Subscription confirmed"))]
    ELSE S

\* sub(room) looking at the pending set only.
sub_IgnoresConfirmed(S, sk, room) ==
    IF room \notin S.pendingSubscriptions
    THEN LET S1 == [S EXCEPT !.pendingSubscriptions = @ \cup {room}]
             S2 == send(S1, sk, MessageData("subscribe", room, NoPayload))
         IN  [S2 EXCEPT !.logs = Append(@, Log("User", "Subscription request sent"))]
    ELSE [S EXCEPT !.logs = Append(@, Log("User", "Already subscribed or pending"))]

\* sub(room) without the test (the earlier revision of the method).
sub_NoGuard(S, sk, room) ==
    LET S1 == [S EXCEPT !.pendingSubscriptions = @ \cup {room}]
        S2 == send(S1, sk, MessageData("subscribe", room, NoPayload))
    IN  [S2 EXCEPT !.logs = Append(@, Log("User", "Subscription request sent"))]

\* sub(room)
sub(S, sk, room) ==
    IF room \notin S.subscriptions /\ room \notin S.pendingSubscriptions
    THEN LET S1 == [S EXCEPT !.pendingSubscriptions = @ \cup {room}]
             S2 == send(S1, sk, MessageData("subscribe", room, NoPayload))
         IN  [S2 EXCEPT !.logs = Append(@, Log("User", "Subscription request sent"))]
    ELSE [S EXCEPT !.logs = Append(@, Log("User", "Already subscribed or pending"))]

\* unsub(room) acting on confirmed rooms only (the earlier revision).
unsub_ConfirmedOnly(S, sk, room) ==
    IF room \in S.subscriptions
    THEN LET S1 == [S EXCEPT !.subscriptions = @ \ {room}]
             S2 == send(S1, sk, MessageData("unsubscribe", room, NoPayload))
         IN  [S2 EXCEPT !.logs = Append(@, Log("User", "Unsubscribe request sent"))]
    ELSE [S EXCEPT !.logs = Append(@, Log("User", "Attempt to unsubscribe from a room that was not subscribed"))]

\* unsub(room) notifying the remote whatever the ledger says.
unsub_AlwaysSends(S, sk, room) ==
    LET S1 == [S EXCEPT !.subscriptions = @ \ {room},
                        !.pendingSubscriptions = @ \ {room}]
        S2 == send(S1, sk, MessageData("unsubscribe", room, NoPayload))
    IN  [S2 EXCEPT !.logs = Append(@, Log("User", "Unsubscribe request sent"))]

\* unsub(room)
unsub(S, sk, room) ==
    IF room \in S.subscriptions \/ room \in S.pendingSubscriptions
    THEN LET S1 == [S EXCEPT !.subscriptions = @ \ {room},
                             !.pendingSubscriptions = @ \ {room}]
             S2 == send(S1, sk, MessageData("unsubscribe", room, NoPayload))
         IN  [S2 EXCEPT !.logs = Append(@, Log("User", "Unsubscribe request sent"))]
    ELSE [S EXCEPT !.logs = Append(@, Log("User", "Attempt to unsubscribe from a room that was not subscribed"))]

\* pub(room, payload) gated by the ledger.
pub_KnownRoomsOnly(S, sk, room, payload) ==
    IF room \in S.subscriptions \cup S.pendingSubscriptions
    THEN LET S1 == send(S, sk, MessageData("publish", room, payload))
         IN  [S1 EXCEPT !.logs = Append(@, Log("User", "User published to room"))]
    ELSE S

\* pub(room, payload)
pub(S, sk, room, payload) ==
    LET S1 == send(S, sk, MessageData("publish", room, payload))
    IN  [S1 EXCEPT !.logs = Append(@, Log("User", "User published to room"))]

\* handlers.forEach(handler => handler(data)): the handlers of a list run in
\* registration order (a list is known by its length: its handlers are
\* numbered 1..n in the order of their registration).
invokeHandlers(S, eventType, text) ==
    [S EXCEPT !.ops = @ \o [i \in 1..eventHandlers[eventType] |->
                                Call(eventType, text, i)]]

\* _triggerEvent(eventType, data)
triggerEvent(S, eventType, text) ==
    LET S1 == [S EXCEPT !.ops = Append(@, Eff("fire", text, eventType))]
    IN  IF eventHandlers[eventType] > 0
        THEN invokeHandlers(S1, eventType, text)
        ELSE S1

\* _updateConnectionState(state): the log entry it makes
updateConnectionState(S, state) ==
    [S EXCEPT !.logs = Append(@, Log("Info", state))]

\* The session fields at the start of a handler, with no effect yet.
Session == [subscriptions |-> subscriptions,
            pendingSubscriptions |-> pendingSubscriptions,
            messageQueue |-> messageQueue,
            ops |-> <<>>, logs |-> <<>>]

\* How many times a list of effects transmits the publish frame of payload p.
TxTimes(effects, p) ==
    Cardinality({j \in 1..Len(effects) :
                    /\ effects[j].k = "tx"
                    /\ Len(effects[j].f) = 3
                    /\ effects[j].f[1] = "publish"
                    /\ effects[j].f[3] = p})

\* Commit the record a handler ends with; history variables follow the
\* effects.
Commit(S) ==
    /\ subscriptions' = S.subscriptions
    /\ pendingSubscriptions' = S.pendingSubscriptions
    /\ messageQueue' = S.messageQueue
    /\ ops' = S.ops
    /\ logs' = S.logs
    /\ txCount' = [p \in Payloads |-> txCount[p] + TxTimes(S.ops, p)]

\* ------------------------------------------------------------------- Init
\* What the constructor makes of the address it is given.
Constructed(address, hostname, port) ==
    /\ location = [hostname |-> hostname, port |-> port]
    /\ serverUrl = formatServerUrl(address, hostname, port)

\* Construction that reports closed until connect() has been called.
Init_ClosedUntilConnect ==
    /\ \E autoconnect \in BOOLEAN :
          /\ connectionState = IF autoconnect THEN "connecting" ELSE "closed"
          /\ socket = IF autoconnect THEN "CONNECTING" ELSE NoSocket
          /\ pingInterval = autoconnect
          /\ intervals = IF autoconnect THEN 1 ELSE 0
    /\ strays = 0
    /\ owed = {}
    /\ teardown = "none"
    /\ orphans = 0
    /\ messageQueue = <<>>
    /\ subscriptions = {}
    /\ pendingSubscriptions = {}
    /\ reconnectAttempts = 0
    /\ reconnectTimers = 0
    /\ reconnect \in BOOLEAN
    /\ options = DefaultOptions
    /\ Constructed(TestUrl, TestHostname, NoPort)
    /\ eventHandlers = [t \in EventTypes |-> 0]
    /\ nextPayload = 1
    /\ txCount = [p \in Payloads |-> 0]
    /\ tracked = {}
    /\ opened = {}
    /\ step = Step("new", NoRoom, "", TestUrl, "", 0)
    /\ ops = <<>>
    /\ logs = <<>>

\* The state right after construction, with options.autoconnect true (the
\* constructor has called connect()) or false, and options.reconnect either
\* way.
Init ==
    /\ connectionState = "connecting"
    /\ \E autoconnect \in BOOLEAN :
          /\ socket = IF autoconnect THEN "CONNECTING" ELSE NoSocket
          /\ pingInterval = autoconnect
          /\ intervals = IF autoconnect THEN 1 ELSE 0
    /\ strays = 0
    /\ owed = {}
    /\ teardown = "none"
    /\ orphans = 0
    /\ messageQueue = <<>>
    /\ subscriptions = {}
    /\ pendingSubscriptions = {}
    /\ reconnectAttempts = 0
    /\ reconnectTimers = 0
    /\ reconnect \in BOOLEAN
    /\ options = DefaultOptions
    /\ Constructed(TestUrl, TestHostname, NoPort)
    /\ eventHandlers = [t \in EventTypes |-> 0]
    /\ nextPayload = 1
    /\ txCount = [p \in Payloads |-> 0]
    /\ tracked = {}
    /\ opened = {}
    /\ step = Step("new", NoRoom, "", TestUrl, "", 0)
    /\ ops = <<>>
    /\ logs = <<>>

\* Room left in the Outbound Queue explored.
RoomInQueue == Len(messageQueue) < MaxQueue

\* The teardown history after a call of the API other than connect(),
\* disconnect() and cleanup().
AfterApiCall == IF teardown = "cleanup" THEN "none" ELSE teardown

\* ------------------------------------------------------------- public API
\* sub(room)
Sub(room) ==
    /\ RoomInQueue
    /\ Commit(sub(Session, socket, room))
    /\ teardown' = AfterApiCall
    /\ step' = Step("sub", room, socket, NoText,
                    Ledger(subscriptions, pendingSubscriptions, room), 0)
    /\ UNCHANGED <<connectionState, socket, orphans, reconnectAttempts,
                   pingInterval, reconnectTimers, reconnect, options,
                   location, serverUrl, owed, strays, intervals,
                   eventHandlers, nextPayload, tracked, opened>>

\* unsub(room)
Unsub(room) ==
    /\ RoomInQueue
    /\ Commit(unsub(Session, socket, room))
    /\ teardown' = AfterApiCall
    /\ step' = Step("unsub", room, socket, NoText,
                    Ledger(subscriptions, pendingSubscriptions, room), 0)
    /\ UNCHANGED <<connectionState, socket, orphans, reconnectAttempts,
                   pingInterval, reconnectTimers, reconnect, options,
                   location, serverUrl, owed, strays, intervals,
                   eventHandlers, nextPayload, tracked, opened>>

\* pub(room, payload), the payload being a fresh one
Pub(room) ==
    /\ RoomInQueue
    /\ nextPayload <= MaxPub
    /\ Commit(pub(Session, socket, room, nextPayload))
    /\ nextPayload' = nextPayload + 1
    /\ tracked' = IF connected(socket) THEN tracked
                  ELSE tracked \cup {nextPayload}
    /\ teardown' = AfterApiCall
    /\ step' = Step("pub", room, socket,
                    Stringify(MessageData("publish", room, nextPayload)),
                    Ledger(subscriptions, pendingSubscriptions, room), 0)
    /\ UNCHANGED <<connectionState, socket, orphans, reconnectAttempts,
                   pingInterval, reconnectTimers, reconnect, options,
                   location, serverUrl, owed, strays, intervals,
                   eventHandlers, opened>>

\* The messages the application passes to send() itself: a keepalive of its
\* own.
AppMessages == {MessageData("ping", NoRoom, NoPayload)}

\* send(data)
Send(data) ==
    /\ RoomInQueue
    /\ Commit(send(Session, socket, data))
    /\ teardown' = AfterApiCall
    /\ step' = Step("send", NoRoom, socket, Stringify(data), "", 0)
    /\ UNCHANGED <<connectionState, socket, orphans, reconnectAttempts,
                   pingInterval, reconnectTimers, reconnect, options,
                   location, serverUrl, owed, strays, intervals,
                   eventHandlers, nextPayload, tracked, opened>>

\* _internalFlushQueueu()
FlushCall ==
    /\ Commit(flushQueue(Session, socket))
    /\ teardown' = AfterApiCall
    /\ step' = Step("flush", NoRoom, socket, NoText, "", 0)
    /\ UNCHANGED <<connectionState, socket, orphans, reconnectAttempts,
                   pingInterval, reconnectTimers, reconnect, options,
                   location, serverUrl, owed, strays, intervals,
                   eventHandlers, nextPayload, tracked, opened>>

\* The number of handlers registered so far, over the given event types.
RECURSIVE TotalHandlers(_)
TotalHandlers(types) ==
    IF types = {} THEN 0
    ELSE LET t == CHOOSE x \in types : TRUE
         IN  eventHandlers[t] + TotalHandlers(types \ {t})

\* on(eventType, handler)
On(eventType) ==
    /\ TotalHandlers(EventTypes) < MaxHandlers
    /\ eventHandlers' = [eventHandlers EXCEPT ![eventType] = @ + 1]
    /\ teardown' = AfterApiCall
    /\ step' = Step("on", NoRoom, socket, NoText, eventType, 0)
    /\ ops' = <<>>
    /\ logs' = <<>>
    /\ UNCHANGED <<connectionState, socket, orphans, messageQueue,
                   subscriptions, pendingSubscriptions, reconnectAttempts,
                   pingInterval, reconnectTimers, reconnect, options,
                   location, serverUrl, owed, strays, intervals, nextPayload,
                   txCount, tracked, opened>>

\* set newOptions({reconnect: b})
SetReconnect(b) ==
    /\ b # reconnect
    /\ reconnect' = b
    /\ teardown' = AfterApiCall
    /\ step' = Step("newOptions", NoRoom, socket, NoText, "", 0)
    /\ ops' = <<>>
    /\ logs' = <<>>
    /\ UNCHANGED <<connectionState, socket, orphans, messageQueue,
                   subscriptions, pendingSubscriptions, reconnectAttempts,
                   pingInterval, reconnectTimers, options, location,
                   serverUrl, owed, strays, intervals, eventHandlers,
                   nextPayload, txCount, tracked, opened>>

\* connect(): CanConnect bounds the number of orphans.
CanConnect == orphans + socketClose(socket) <= MaxOrphans

\* connect() replacing the connection it holds without closing it.
connect_KeepsOldOpen ==
    /\ connectionState' = "connecting"
    /\ orphans' = orphans + socketClose(socket)
    /\ strays' = strays + (IF socket = NoSocket THEN 0 ELSE dropsLive(socket))
    /\ socket' = "CONNECTING"
    /\ intervals' = clearPing(pingInterval, intervals) + 1
    /\ pingInterval' = TRUE
    /\ teardown' = "none"
    /\ ops' = <<>>
    /\ logs' = <<Log("Info", "connecting"), Log("Client", "Attempting to connect")>>

\* connect() arming the keepalive without clearing the one it had armed.
connect_KeepsOldPing ==
    /\ connectionState' = "connecting"
    /\ orphans' = orphans + socketClose(socket)
    /\ strays' = strays + (IF socket = NoSocket THEN 0
                           ELSE dropsLive(readyAfterClose(socket)))
    /\ socket' = "CONNECTING"
    /\ intervals' = intervals + 1
    /\ pingInterval' = TRUE
    /\ teardown' = "none"
    /\ ops' = <<>>
    /\ logs' = <<Log("Info", "connecting"), Log("Client", "Attempting to connect")>>

\* connect()
connect ==
    /\ connectionState' = "connecting"
    /\ orphans' = orphans + socketClose(socket)
    /\ strays' = strays + (IF socket = NoSocket THEN 0
                           ELSE dropsLive(readyAfterClose(socket)))
    /\ socket' = "CONNECTING"
    /\ intervals' = clearPing(pingInterval, intervals) + 1
    /\ pingInterval' = TRUE
    /\ teardown' = "none"
    /\ ops' = <<>>
    /\ logs' = <<Log("Info", "connecting"), Log("Client", "Attempting to connect")>>

\* connect() called by the application
ConnectCall ==
    /\ CanConnect
    /\ connect
    /\ step' = Step("connect", NoRoom, socket, NoText, "", 0)
    /\ UNCHANGED <<messageQueue, subscriptions, pendingSubscriptions,
                   reconnectAttempts, reconnectTimers, reconnect, options,
                   location, serverUrl, owed, eventHandlers, nextPayload,
                   txCount, tracked, opened>>

\* disconnect()
Disconnect ==
    LET closes == socket # NoSocket /\ socket \in {"OPEN", "CONNECTING"}
        S1 == updateConnectionState(Session, "closed")
        S2 == triggerEvent(S1, "close", NoText)
        S3 == [S2 EXCEPT !.messageQueue = <<>>,
                         !.subscriptions = {},
                         !.pendingSubscriptions = {},
                         !.logs = Append(@, Log("Client", "WebSocket client disconnected"))]
    IN  /\ closes => orphans < MaxOrphans
        /\ intervals' = clearPing(pingInterval, intervals)
        /\ pingInterval' = FALSE
        /\ orphans' = IF closes THEN orphans + socketClose(socket) ELSE orphans
        /\ strays' = strays + (IF closes THEN dropsLive(readyAfterClose(socket))
                               ELSE 0)
        /\ socket' = IF closes THEN NoSocket ELSE socket
        /\ teardown' = "disconnect"
        /\ connectionState' = "closed"
        /\ Commit(S3)
        /\ tracked' = {}
        /\ opened' = {}
        /\ step' = Step("disconnect", NoRoom, socket, NoText, "", 0)
        /\ UNCHANGED <<reconnectAttempts, reconnectTimers, reconnect, options,
                       location, serverUrl, owed, eventHandlers, nextPayload>>

\* cleanup() leaving the reconnect counter as it found it.
Cleanup_KeepsCounter ==
    LET S1 == [Session EXCEPT !.pendingSubscriptions = {},
                              !.messageQueue = <<>>,
                              !.subscriptions = {}]
    IN  /\ intervals' = clearPing(pingInterval, intervals)
        /\ pingInterval' = FALSE
        /\ strays' = strays + (IF socket = NoSocket THEN 0
                               ELSE dropsLive(readyAfterClose(socket)))
        /\ socket' = NoSocket
        /\ teardown' = "cleanup"
        /\ connectionState' = "closed"
        /\ Commit(S1)
        /\ tracked' = {}
        /\ opened' = {}
        /\ step' = Step("cleanup", NoRoom, socket, NoText, "", 0)
        /\ UNCHANGED <<orphans, reconnectTimers, reconnect, options, location,
                       serverUrl, owed, eventHandlers, nextPayload,
                       reconnectAttempts>>

\* cleanup(): the socket it closes has its listeners removed first, so it
\* is no orphan: none of its events reaches the session any more.
Cleanup ==
    LET S1 == [Session EXCEPT !.pendingSubscriptions = {},
                              !.messageQueue = <<>>,
                              !.subscriptions = {}]
    IN  /\ intervals' = clearPing(pingInterval, intervals)
        /\ pingInterval' = FALSE
        /\ strays' = strays + (IF socket = NoSocket THEN 0
                               ELSE dropsLive(readyAfterClose(socket)))
        /\ socket' = NoSocket
        /\ teardown' = "cleanup"
        /\ reconnectAttempts' = 0
        /\ connectionState' = "closed"
        /\ Commit(S1)
        /\ tracked' = {}
        /\ opened' = {}
        /\ step' = Step("cleanup", NoRoom, socket, NoText, "", 0)
        /\ UNCHANGED <<orphans, reconnectTimers, reconnect, options, location,
                       serverUrl, owed, eventHandlers, nextPayload>>

\* ------------------------------------------------------ transport callbacks
\* The elements of a set of rooms as a list.
RECURSIVE SeqOf(_)
SeqOf(set) ==
    IF set = {} THEN <<>>
    ELSE LET x == CHOOSE y \in set : TRUE IN <<x>> \o SeqOf(set \ {x})

\* rooms.forEach(room => this.sub(room))
RECURSIVE replay(_, _, _)
replay(S, sk, rooms) ==
    IF rooms = <<>> THEN S
    ELSE replay(sub(S, sk, Head(rooms)), sk, Tail(rooms))

\* _onOpen() announcing the connection before the flush and again after
\* the replay.
onOpen_AnnouncesTwice(S, sk) ==
    LET S0 == [S EXCEPT !.logs = Append(@, Log("Server", "Connection established"))]
        S1 == triggerEvent(updateConnectionState(S0, "connected"), "connect", NoText)
        S2 == flushQueue(S1, sk)
        S3 == replay(S2, sk,
                     SeqOf(S2.subscriptions) \o SeqOf(S2.pendingSubscriptions))
    IN  triggerEvent(S3, "connect", NoText)

\* _onOpen()
onOpen(S, sk) ==
    LET S0 == [S EXCEPT !.logs = Append(@, Log("Server", "Connection established"))]
        S1 == updateConnectionState(S0, "connected")
        S2 == flushQueue(S1, sk)
        S3 == replay(S2, sk,
                     SeqOf(S2.subscriptions) \o SeqOf(S2.pendingSubscriptions))
    IN  triggerEvent(S3, "connect", NoText)

\* The transport opens the socket the session holds: its readyState becomes
\* OPEN and its open event is delivered.
TransportOpen ==
    /\ socket = "CONNECTING"
    /\ socket' = "OPEN"
    /\ connectionState' = "connected"
    /\ reconnectAttempts' = 0
    /\ Commit(onOpen(Session, socket'))
    /\ opened' = tracked
    /\ step' = Step("open", NoRoom, "held", NoText, "", 0)
    /\ UNCHANGED <<orphans, pingInterval, reconnectTimers, reconnect, options,
                   location, serverUrl, owed, teardown, strays, intervals,
                   eventHandlers, nextPayload, tracked>>

\* The texts the remote sends.
Inbound == { Stringify(MessageData("subscribed", r, NoPayload)) : r \in Rooms }
           \cup { Stringify(MessageData("subscribed", NoRoom, NoPayload)),
                  Stringify(MessageData("pong", NoRoom, NoPayload)),
                  Stringify(MessageData("chat", "lobby", NoPayload)),
                  Malformed }

\* _eventHandlers[action]: the length of the list, -1 when there is none
handlersOf(action) ==
    IF action \in EventTypes /\ eventHandlers[action] > 0
    THEN eventHandlers[action] ELSE -1

\* _onMessage(event) running the message listeners after the frame has
\* been acted upon.
onMessage_ListenersLast(S, text) ==
    IF ParseFails(text)
    THEN [S EXCEPT !.logs = Append(@, Log("Error", "Error parsing message"))]
    ELSE LET data == Parse(text)
         IN  IF data.action = "subscribed" /\ data.room # NoRoom
             THEN triggerEvent(subscribed(S, data.room), "message", text)
             ELSE IF data.action = "pong"
             THEN triggerEvent(
                      [S EXCEPT !.logs = Append(@, Log("Info", "Pong received"))],
                      "message", text)
             ELSE LET S2 == [S EXCEPT !.logs = Append(@, Log("Server", "Message received"))]
                  IN  IF handlersOf(data.action) = -1
                      THEN [S2 EXCEPT !.ops = Append(@, Eff("throw", text, "TypeError"))]
                      ELSE triggerEvent(invokeHandlers(S2, data.action, text),
                                        "message", text)

\* _onMessage(event) letting a pong frame through to the handlers of its
\* action.
onMessage_PongDispatched(S, text) ==
    IF ParseFails(text)
    THEN [S EXCEPT !.logs = Append(@, Log("Error", "Error parsing message"))]
    ELSE LET data == Parse(text)
             S1 == triggerEvent(S, "message", text)
         IN  IF data.action = "subscribed" /\ data.room # NoRoom
             THEN subscribed(S1, data.room)
             ELSE LET S2 == [S1 EXCEPT !.logs = Append(@, Log("Server", "Message received"))]
                  IN  IF handlersOf(data.action) = -1
                      THEN [S2 EXCEPT !.ops = Append(@, Eff("throw", text, "TypeError"))]
                      ELSE invokeHandlers(S2, data.action, text)

\* _onMessage(event) reporting a frame it cannot parse to the error
\* listeners.
onMessage_ReportsParseError(S, text) ==
    IF ParseFails(text)
    THEN triggerEvent(
             [S EXCEPT !.logs = Append(@, Log("Error", "Error parsing message"))],
             "error", text)
    ELSE LET data == Parse(text)
             S1 == triggerEvent(S, "message", text)
         IN  IF data.action = "subscribed" /\ data.room # NoRoom
             THEN subscribed(S1, data.room)
             ELSE IF data.action = "pong"
             THEN [S1 EXCEPT !.logs = Append(@, Log("Info", "Pong received"))]
             ELSE LET S2 == [S1 EXCEPT !.logs = Append(@, Log("Server", "Message received"))]
                  IN  IF handlersOf(data.action) = -1
                      THEN [S2 EXCEPT !.ops = Append(@, Eff("throw", text, "TypeError"))]
                      ELSE invokeHandlers(S2, data.action, text)

\* _onMessage(event)
onMessage(S, text) ==
    IF ParseFails(text)
    THEN [S EXCEPT !.logs = Append(@, Log("Error", "Error parsing message"))]
    ELSE LET data == Parse(text)
             S1 == triggerEvent(S, "message", text)
         IN  IF data.action = "subscribed" /\ data.room # NoRoom
             THEN subscribed(S1, data.room)
             ELSE IF data.action = "pong"
             THEN [S1 EXCEPT !.logs = Append(@, Log("Info", "Pong received"))]
             ELSE LET S2 == [S1 EXCEPT !.logs = Append(@, Log("Server", "Message received"))]
                  IN  IF handlersOf(data.action) = -1
                      THEN [S2 EXCEPT !.ops = Append(@, Eff("throw", text, "TypeError"))]
                      ELSE invokeHandlers(S2, data.action, text)

\* A text frame arrives on the open socket.
TransportMessage(text) ==
    /\ socket = "OPEN"
    /\ Commit(onMessage(Session, text))
    /\ step' = Step("message", NoRoom, "held", text, "", 0)
    /\ UNCHANGED <<connectionState, socket, orphans, reconnectAttempts,
                   pingInterval, reconnectTimers, reconnect, options,
                   location, serverUrl, owed, teardown, strays, intervals,
                   eventHandlers, nextPayload, tracked, opened>>

\* The sockets whose events reach the session: the one it holds, an orphan.
Who == {"held", "orphan"}
Live(w) == IF w = "held" THEN socket \in {"CONNECTING", "OPEN", "CLOSING"}
           ELSE orphans > 0

\* The Event object an error event carries.
ErrorEvent == <<"Event">>

\* _onError(event) scheduling a reconnect of its own.
TransportError_Reconnects(w) ==
    /\ Live(w)
    /\ reconnectTimers < MaxTimers
    /\ connectionState' = "error"
    /\ Commit(triggerEvent(updateConnectionState(
                 [Session EXCEPT !.logs = Append(@, Log("Error", "WebSocket error encountered"))],
                 "error"), "error", ErrorEvent))
    /\ reconnectTimers' = reconnectTimers + 1
    /\ step' = Step("error", NoRoom, w, NoText, "", 0)
    /\ UNCHANGED <<socket, orphans, reconnectAttempts, pingInterval,
                   reconnect, options, location, serverUrl, owed, teardown,
                   strays, intervals, eventHandlers, nextPayload, tracked,
                   opened>>

\* _onError(event)
TransportError(w) ==
    /\ Live(w)
    /\ connectionState' = "error"
    /\ Commit(triggerEvent(updateConnectionState(
                 [Session EXCEPT !.logs = Append(@, Log("Error", "WebSocket error encountered"))],
                 "error"), "error", ErrorEvent))
    /\ step' = Step("error", NoRoom, w, NoText, "", 0)
    /\ UNCHANGED <<socket, orphans, reconnectAttempts, pingInterval,
                   reconnectTimers, reconnect, options, location, serverUrl,
                   owed, teardown, strays, intervals, eventHandlers,
                   nextPayload, tracked, opened>>

\* The remote starts the closing handshake of the open socket.
TransportClosing ==
    /\ socket = "OPEN"
    /\ socket' = "CLOSING"
    /\ step' = Step("closing", NoRoom, "held", NoText, "", 0)
    /\ ops' = <<>>
    /\ logs' = <<>>
    /\ UNCHANGED <<connectionState, orphans, messageQueue, subscriptions,
                   pendingSubscriptions, reconnectAttempts, pingInterval,
                   reconnectTimers, reconnect, options, location, serverUrl,
                   owed, teardown, strays, intervals, eventHandlers,
                   nextPayload, txCount, tracked, opened>>

\* Math.pow(base, n)
RECURSIVE Pow(_, _)
Pow(base, n) == IF n = 0 THEN 1 ELSE base * Pow(base, n - 1)

Min(a, b) == IF a < b THEN a ELSE b

\* The delay without its ceiling.
reconnectDelay_Uncapped(attempts) ==
    options.reconnectDelay * Pow(options.reconnectMultiplier, attempts)

\* The delay _onClose computes from the reconnect counter.
reconnectDelay(attempts) ==
    Min(options.reconnectDelay * Pow(options.reconnectMultiplier, attempts),
        options.maxReconnectDelay)

\* The test _onClose makes, on the state it has just updated.
closeSchedules(stateAfterUpdate) == stateAfterUpdate # "connecting"

\* _onClose() counting an attempt only when the reconnect flag is on.
onClose_CountsWhenEnabled(w) ==
    /\ socket' = IF w = "held" THEN "CLOSED" ELSE socket
    /\ orphans' = IF w = "held" THEN orphans ELSE orphans - 1
    /\ connectionState' = "closed"
    /\ Commit(triggerEvent(updateConnectionState(
                [Session EXCEPT !.logs = Append(@, Log("Client", "WebSocket connection closed"))],
                "closed"), "close", NoText))
    /\ IF closeSchedules(connectionState')
       THEN /\ reconnectTimers' = reconnectTimers + 1
            /\ reconnectAttempts' = IF reconnect THEN reconnectAttempts + 1
                                    ELSE reconnectAttempts
            /\ step' = Step("close", NoRoom, w, NoText, connectionState,
                            reconnectDelay(reconnectAttempts))
       ELSE /\ UNCHANGED <<reconnectTimers, reconnectAttempts>>
            /\ step' = Step("close", NoRoom, w, NoText, connectionState, -1)
    /\ UNCHANGED <<pingInterval, reconnect, options, location, serverUrl,
                   owed, teardown, strays, intervals, eventHandlers,
                   nextPayload, tracked, opened>>

\* _onClose() testing the state the session was in before the event.
onClose_TestsPriorState(w) ==
    /\ socket' = IF w = "held" THEN "CLOSED" ELSE socket
    /\ orphans' = IF w = "held" THEN orphans ELSE orphans - 1
    /\ connectionState' = "closed"
    /\ Commit(triggerEvent(updateConnectionState(
                [Session EXCEPT !.logs = Append(@, Log("Client", "WebSocket connection closed"))],
                "closed"), "close", NoText))
    /\ IF closeSchedules(connectionState)
       THEN /\ reconnectTimers' = reconnectTimers + 1
            /\ reconnectAttempts' = reconnectAttempts + 1
            /\ step' = Step("close", NoRoom, w, NoText, connectionState,
                            reconnectDelay(reconnectAttempts))
       ELSE /\ UNCHANGED <<reconnectTimers, reconnectAttempts>>
            /\ step' = Step("close", NoRoom, w, NoText, connectionState, -1)
    /\ UNCHANGED <<pingInterval, reconnect, options, location, serverUrl,
                   owed, teardown, strays, intervals, eventHandlers,
                   nextPayload, tracked, opened>>

\* _onClose(), run by the close event of socket w.
onClose(w) ==
    /\ socket' = IF w = "held" THEN "CLOSED" ELSE socket
    /\ orphans' = IF w = "held" THEN orphans ELSE orphans - 1
    /\ connectionState' = "closed"
    /\ Commit(triggerEvent(updateConnectionState(
                [Session EXCEPT !.logs = Append(@, Log("Client", "WebSocket connection closed"))],
                "closed"), "close", NoText))
    /\ IF closeSchedules(connectionState')
       THEN /\ reconnectTimers' = reconnectTimers + 1
            /\ reconnectAttempts' = reconnectAttempts + 1
            /\ step' = Step("close", NoRoom, w, NoText, connectionState,
                            reconnectDelay(reconnectAttempts))
       ELSE /\ UNCHANGED <<reconnectTimers, reconnectAttempts>>
            /\ step' = Step("close", NoRoom, w, NoText, connectionState, -1)
    /\ UNCHANGED <<pingInterval, reconnect, options, location, serverUrl,
                   owed, teardown, strays, intervals, eventHandlers,
                   nextPayload, tracked, opened>>

\* A socket is closed (a failed attempt, a drop, or the end of a closing
\* handshake): its readyState becomes CLOSED and its close event is
\* delivered: _onClose() runs.
TransportClose(w) ==
    /\ Live(w)
    /\ reconnectTimers < MaxTimers
    /\ reconnectAttempts < MaxAttempts
    /\ onClose(w)

\* ------------------------------------------------------------------ timers
\* The timeout callback reconnecting without a look at options.reconnect.
ReconnectTimerFire_IgnoresFlag ==
    /\ reconnectTimers > 0
    /\ reconnectTimers' = reconnectTimers - 1
    /\ step' = Step("timer", NoRoom, socket, NoText, "connect", 0)
    /\ CanConnect
    /\ connect
    /\ UNCHANGED <<messageQueue, subscriptions, pendingSubscriptions,
                   reconnectAttempts, reconnect, options, location, serverUrl,
                   owed, eventHandlers, nextPayload, txCount, tracked,
                   opened>>

\* A reconnect timeout armed by _onClose expires.
ReconnectTimerFire ==
    /\ reconnectTimers > 0
    /\ reconnectTimers' = reconnectTimers - 1
    /\ step' = Step("timer", NoRoom, socket, NoText,
                    IF reconnect THEN "connect" ELSE "idle", 0)
    /\ IF reconnect
       THEN /\ CanConnect
            /\ connect
       ELSE /\ ops' = <<>>
            /\ logs' = <<>>
            /\ UNCHANGED <<connectionState, socket, orphans, pingInterval,
                           strays, intervals, teardown>>
    /\ UNCHANGED <<messageQueue, subscriptions, pendingSubscriptions,
                   reconnectAttempts, reconnect, options, location, serverUrl,
                   owed, eventHandlers, nextPayload, txCount, tracked,
                   opened>>

\* A keepalive tick that always puts its ping on the queue.
PingTick_AlwaysQueues ==
    /\ intervals > 0
    /\ RoomInQueue
    /\ Commit(send(Session, NoSocket, MessageData("ping", NoRoom, NoPayload)))
    /\ step' = Step("ping", NoRoom, socket, NoText, "", 0)
    /\ UNCHANGED <<connectionState, socket, orphans, reconnectAttempts,
                   pingInterval, reconnectTimers, reconnect, options,
                   location, serverUrl, owed, teardown, strays, intervals,
                   eventHandlers, nextPayload, tracked, opened>>

\* A keepalive tick that does nothing unless the connection is open.
PingTick_OnlyWhenOpen ==
    /\ intervals > 0
    /\ RoomInQueue
    /\ Commit(IF socket = "OPEN"
              THEN send(Session, socket, MessageData("ping", NoRoom, NoPayload))
              ELSE Session)
    /\ step' = Step("ping", NoRoom, socket, NoText, "", 0)
    /\ UNCHANGED <<connectionState, socket, orphans, reconnectAttempts,
                   pingInterval, reconnectTimers, reconnect, options,
                   location, serverUrl, owed, teardown, strays, intervals,
                   eventHandlers, nextPayload, tracked, opened>>

\* The keepalive interval armed by connect() ticks.
PingTick ==
    /\ intervals > 0
    /\ RoomInQueue
    /\ Commit(send(Session, socket, MessageData("ping", NoRoom, NoPayload)))
    /\ step' = Step("ping", NoRoom, socket, NoText, "", 0)
    /\ UNCHANGED <<connectionState, socket, orphans, reconnectAttempts,
                   pingInterval, reconnectTimers, reconnect, options,
                   location, serverUrl, owed, teardown, strays, intervals,
                   eventHandlers, nextPayload, tracked, opened>>

\* ------------------------------------------------------------------- Next
Next ==
    \/ \E r \in Rooms : Sub(r)
    \/ \E r \in Rooms : Unsub(r)
    \/ \E r \in PubRooms : Pub(r)
    \/ \E m \in AppMessages : Send(m)
    \/ FlushCall
    \/ \E b \in BOOLEAN : SetReconnect(b)
    \/ ConnectCall
    \/ Disconnect
    \/ Cleanup
    \/ TransportOpen
    \/ \E text \in Inbound : TransportMessage(text)
    \/ \E w \in Who : TransportError(w)
    \/ TransportClosing
    \/ \E w \in Who : TransportClose(w)
    \/ ReconnectTimerFire
    \/ PingTick

Spec == Init /\ [][Next]_vars

\* ------------------------------------------------- sessions with listeners
\* The state right after construction and the on() calls an application
\* makes next, before any event is handled: every event type has MaxHandlers
\* handlers.
InitListeners ==
    /\ connectionState = "connecting"
    /\ \E autoconnect \in BOOLEAN :
          /\ socket = IF autoconnect THEN "CONNECTING" ELSE NoSocket
          /\ pingInterval = autoconnect
          /\ intervals = IF autoconnect THEN 1 ELSE 0
    /\ strays = 0
    /\ owed = {}
    /\ teardown = "none"
    /\ orphans = 0
    /\ messageQueue = <<>>
    /\ subscriptions = {}
    /\ pendingSubscriptions = {}
    /\ reconnectAttempts = 0
    /\ reconnectTimers = 0
    /\ reconnect \in BOOLEAN
    /\ options = DefaultOptions
    /\ Constructed(TestUrl, TestHostname, NoPort)
    /\ eventHandlers = [t \in EventTypes |-> MaxHandlers]
    /\ nextPayload = 1
    /\ txCount = [p \in Payloads |-> 0]
    /\ tracked = {}
    /\ opened = {}
    /\ step = Step("on", NoRoom, "", NoText, "", 0)
    /\ ops = <<>>
    /\ logs = <<>>

SpecListeners == InitListeners /\ [][Next]_vars

\* --------------------------------------------------------- backoff runs
\* Sessions constructed with reconnect delay settings of their own and left
\* to the transport and the timers: the application makes no call after the
\* constructor, the remote accepts or fails each attempt.
TestOptions == [reconnectDelay      |-> 10,
                reconnectMultiplier |-> 2,
                maxReconnectDelay   |-> 50]

OptionChoices ==
    {DefaultOptions, TestOptions}
    \cup [reconnectDelay      : {0, 10, 1000},
          reconnectMultiplier : {1, 2, 3},
          maxReconnectDelay   : {0, 50, 30000}]

InitBackoff ==
    /\ connectionState = "connecting"
    /\ \E autoconnect \in BOOLEAN :
          /\ socket = IF autoconnect THEN "CONNECTING" ELSE NoSocket
          /\ pingInterval = autoconnect
          /\ intervals = IF autoconnect THEN 1 ELSE 0
    /\ strays = 0
    /\ owed = {}
    /\ teardown = "none"
    /\ orphans = 0
    /\ messageQueue = <<>>
    /\ subscriptions = {}
    /\ pendingSubscriptions = {}
    /\ reconnectAttempts = 0
    /\ reconnectTimers = 0
    /\ reconnect \in BOOLEAN
    /\ options \in OptionChoices
    /\ Constructed(TestUrl, TestHostname, NoPort)
    /\ eventHandlers = [t \in EventTypes |-> 0]
    /\ nextPayload = 1
    /\ txCount = [p \in Payloads |-> 0]
    /\ tracked = {}
    /\ opened = {}
    /\ step = Step("new", NoRoom, "", TestUrl, "", 0)
    /\ ops = <<>>
    /\ logs = <<>>

\* The connection the session holds is closed: a failed attempt, a drop, or
\* the end of a closing handshake.
ConnectionLost ==
    /\ Live("held")
    /\ reconnectTimers < MaxTimers
    /\ reconnectAttempts < MaxFailures
    /\ onClose("held")

NextBackoff ==
    \/ TransportOpen
    \/ TransportError("held")
    \/ TransportClosing
    \/ ConnectionLost
    \/ ReconnectTimerFire

SpecBackoff == InitBackoff /\ [][NextBackoff]_vars

\* The same runs with the host's timers at work: a timeout that was armed
\* expires in the end.
SpecLive == SpecBackoff /\ WF_vars(ReconnectTimerFire)

\* ------------------------------------------------------ pending timers
\* The connection life cycle alone, with room for more than one pending
\* reconnect timeout: the calls that open and close connections, the
\* transport's open and close events, and the timeouts.
MaxPending == 2

\* The close event of a socket whose listeners are attached.
CloseEvent(w) ==
    /\ Live(w)
    /\ reconnectTimers < MaxPending
    /\ reconnectAttempts < MaxPending
    /\ onClose(w)

NextTimers ==
    \/ \E b \in BOOLEAN : SetReconnect(b)
    \/ ConnectCall
    \/ Disconnect
    \/ Cleanup
    \/ TransportOpen
    \/ TransportClosing
    \/ \E w \in Who : CloseEvent(w)
    \/ ReconnectTimerFire

SpecTimers == Init /\ [][NextTimers]_vars

\* -------------------------------------------------------------- addresses
\* Sessions constructed with every address, on every host page, and then
\* the connection life cycle.
Addresses == {<<"/", "c", "h", "a", "t">>, <<"/">>, <<>>, <<"c", "/">>,
              <<"w", "s", ":", "/", "/", "h">>}
Hostnames == {<<"e", "x", "a", "m", "p", "l", "e", ".", "c", "o", "m">>,
              <<"h">>}
Ports == {NoPort, <<"8", "0", "8", "0">>, <<"0">>}

InitUrl ==
    /\ connectionState = "connecting"
    /\ \E autoconnect \in BOOLEAN :
          /\ socket = IF autoconnect THEN "CONNECTING" ELSE NoSocket
          /\ pingInterval = autoconnect
          /\ intervals = IF autoconnect THEN 1 ELSE 0
    /\ strays = 0
    /\ owed = {}
    /\ teardown = "none"
    /\ orphans = 0
    /\ messageQueue = <<>>
    /\ subscriptions = {}
    /\ pendingSubscriptions = {}
    /\ reconnectAttempts = 0
    /\ reconnectTimers = 0
    /\ reconnect = FALSE
    /\ options = DefaultOptions
    /\ \E address \in Addresses, hostname \in Hostnames, port \in Ports :
          /\ Constructed(address, hostname, port)
          /\ step = Step("new", NoRoom, "", address, "", 0)
    /\ eventHandlers = [t \in EventTypes |-> 0]
    /\ nextPayload = 1
    /\ txCount = [p \in Payloads |-> 0]
    /\ tracked = {}
    /\ opened = {}
    /\ ops = <<>>
    /\ logs = <<>>

SpecUrl == InitUrl /\ [][NextTimers]_vars

\* ------------------------------------------------------------- the remote
\* A session that reconnects, facing a remote that answers every subscribe
\* frame it gets with a subscribed frame for the same room, on the
\* connection it got it on. The application subscribes; connections open
\* and are lost.
Heard(effects) ==
    {r \in Rooms :
        \E i \in 1..Len(effects) :
            effects[i] = Eff("tx", Stringify(MessageData("subscribe", r, NoPayload)), "")}

\* sub(room), the remote getting the frame if one is transmitted.
SubHeard(r) ==
    /\ RoomInQueue
    /\ LET S == sub(Session, socket, r)
       IN  /\ Commit(S)
           /\ owed' = IF socket = "OPEN" THEN owed \cup Heard(S.ops) ELSE owed
    /\ teardown' = AfterApiCall
    /\ step' = Step("sub", r, socket, NoText,
                    Ledger(subscriptions, pendingSubscriptions, r), 0)
    /\ UNCHANGED <<connectionState, socket, orphans, reconnectAttempts,
                   pingInterval, reconnectTimers, reconnect, options,
                   location, serverUrl, strays, intervals, eventHandlers,
                   nextPayload, tracked, opened>>

\* The socket opens: the remote gets what _onOpen transmits on the new
\* connection, and owes nothing for what it got on an earlier one.
OpenHeard ==
    /\ socket = "CONNECTING"
    /\ socket' = "OPEN"
    /\ connectionState' = "connected"
    /\ reconnectAttempts' = 0
    /\ LET S == onOpen(Session, socket')
       IN  /\ Commit(S)
           /\ owed' = Heard(S.ops)
    /\ opened' = tracked
    /\ step' = Step("open", NoRoom, "held", NoText, "", 0)
    /\ UNCHANGED <<orphans, pingInterval, reconnectTimers, reconnect, options,
                   location, serverUrl, teardown, strays, intervals,
                   eventHandlers, nextPayload, tracked>>

\* The remote answers a subscribe frame it has got.
Acknowledge(r) ==
    /\ socket = "OPEN"
    /\ r \in owed
    /\ owed' = owed \ {r}
    /\ Commit(onMessage(Session, Stringify(MessageData("subscribed", r, NoPayload))))
    /\ step' = Step("message", NoRoom, "held",
                    Stringify(MessageData("subscribed", r, NoPayload)), "", 0)
    /\ UNCHANGED <<connectionState, socket, orphans, reconnectAttempts,
                   pingInterval, reconnectTimers, reconnect, options,
                   location, serverUrl, teardown, strays, intervals,
                   eventHandlers, nextPayload, tracked, opened>>

InitRemote ==
    /\ connectionState = "connecting"
    /\ socket = "CONNECTING"
    /\ pingInterval = TRUE
    /\ intervals = 1
    /\ strays = 0
    /\ owed = {}
    /\ teardown = "none"
    /\ orphans = 0
    /\ messageQueue = <<>>
    /\ subscriptions = {}
    /\ pendingSubscriptions = {}
    /\ reconnectAttempts = 0
    /\ reconnectTimers = 0
    /\ reconnect = TRUE
    /\ options \in OptionChoices
    /\ Constructed(TestUrl, TestHostname, NoPort)
    /\ eventHandlers = [t \in EventTypes |-> 0]
    /\ nextPayload = 1
    /\ txCount = [p \in Payloads |-> 0]
    /\ tracked = {}
    /\ opened = {}
    /\ step = Step("new", NoRoom, "", TestUrl, "", 0)
    /\ ops = <<>>
    /\ logs = <<>>

NextRemote ==
    \/ \E r \in Rooms : SubHeard(r)
    \/ OpenHeard
    \/ \E r \in Rooms : Acknowledge(r)
    \/ ConnectionLost
    \/ ReconnectTimerFire

\* The remote answers in the end, a connecting socket opens in the end and
\* a timeout that was armed expires in the end.
SpecRemote ==
    /\ InitRemote
    /\ [][NextRemote]_vars
    /\ WF_vars(\E r \in Rooms : Acknowledge(r))
    /\ WF_vars(OpenHeard)
    /\ WF_vars(ReconnectTimerFire)

\* ================================================================= claims
SubscribeFrame(r)   == Stringify(MessageData("subscribe", r, NoPayload))
UnsubscribeFrame(r) == Stringify(MessageData("unsubscribe", r, NoPayload))
SubscribedFrame(r)  == Stringify(MessageData("subscribed", r, NoPayload))
PublishFrame(r, p)  == Stringify(MessageData("publish", r, p))

\* What send(text) must do in the state before the step: transmit at once on
\* an open connection and leave the queue alone, otherwise push the text on
\* the tail of the queue and transmit nothing.
SentOnce(text) ==
    IF socket = "OPEN"
    THEN ops' = <<Eff("tx", text, "")>> /\ messageQueue' = messageQueue
    ELSE ops' = <<Eff("enq", text, "")>> /\ messageQueue' = Append(messageQueue, text)

LedgerUnchanged ==
    /\ subscriptions' = subscriptions
    /\ pendingSubscriptions' = pendingSubscriptions

\* C1: in every reachable state no room is both pending and confirmed.
C1_LedgerDisjoint == subscriptions \cap pendingSubscriptions = {}

\* A room has been confirmed by an acknowledgment (it was pending before).
C1_Witness ==
    /\ step.op = "message"
    /\ step.text = SubscribedFrame("lobby")
    /\ "lobby" \in subscriptions
    /\ logs = <<Log("User", "Subscription confirmed")>>

\* C2: sub(r) on a room in neither set puts r in pending (not in confirmed)
\* and produces exactly one subscribe frame, transmitted or queued; sub(r) on
\* a room already pending or confirmed changes neither the ledger nor the
\* queue and transmits nothing.
C2_SubIdempotent ==
    [][\A r \in Rooms :
         (step'.op = "sub" /\ step'.room = r) =>
            IF r \notin subscriptions /\ r \notin pendingSubscriptions
            THEN /\ pendingSubscriptions' = pendingSubscriptions \cup {r}
                 /\ subscriptions' = subscriptions
                 /\ SentOnce(SubscribeFrame(r))
            ELSE /\ LedgerUnchanged
                 /\ messageQueue' = messageQueue
                 /\ ops' = <<>>]_vars

\* sub(r) was called again while r was pending: r is still pending, once,
\* and the queue holds the one subscribe frame of the first call.
C2_Witness ==
    /\ step.op = "sub"
    /\ step.was = "pending"
    /\ pendingSubscriptions = {"lobby"}
    /\ subscriptions = {}
    /\ messageQueue = <<SubscribeFrame("lobby")>>
    /\ ops = <<>>

\* C3: a room enters confirmed only in the step that handles an inbound
\* subscribed frame naming it while it is pending, and that step moves it
\* from pending to confirmed.
C3_ConfirmedOnlyByAck ==
    [][\A r \in Rooms :
         /\ (r \notin subscriptions /\ r \in subscriptions') =>
               /\ step'.op = "message"
               /\ step'.text = SubscribedFrame(r)
               /\ r \in pendingSubscriptions
               /\ r \notin pendingSubscriptions'
         /\ (step'.op = "message" /\ step'.text = SubscribedFrame(r)
               /\ r \in pendingSubscriptions) =>
               /\ r \in subscriptions'
               /\ r \notin pendingSubscriptions']_vars

\* An acknowledgment has just moved the room from pending to confirmed.
C3_Witness ==
    /\ step.op = "message"
    /\ step.text = SubscribedFrame("lobby")
    /\ subscriptions = {"lobby"}
    /\ pendingSubscriptions = {}
    /\ ops = <<Eff("fire", SubscribedFrame("lobby"), "message"),
               Eff("confirm", "lobby", "")>>

\* C4: unsub(r) on a room that is pending or confirmed removes it from both
\* sets and produces exactly one unsubscribe frame, transmitted when the
\* connection is open and queued otherwise; also for a room only pending.
C4_UnsubSends ==
    [][\A r \in Rooms :
         (step'.op = "unsub" /\ step'.room = r
            /\ (r \in subscriptions \/ r \in pendingSubscriptions)) =>
            /\ subscriptions' = subscriptions \ {r}
            /\ pendingSubscriptions' = pendingSubscriptions \ {r}
            /\ SentOnce(UnsubscribeFrame(r))]_vars

\* unsub(r) has acted on a room that was only pending, the connection open.
C4_Witness ==
    /\ step.op = "unsub"
    /\ step.was = "pending"
    /\ step.sock = "OPEN"
    /\ "lobby" \notin subscriptions \cup pendingSubscriptions
    /\ ops = <<Eff("tx", UnsubscribeFrame("lobby"), "")>>

\* C5: unsub(r) on a room in neither set transmits nothing and leaves the
\* queue and both sets as they were; it makes one log entry.
C5_UnsubUnknownNoFrame ==
    [][\A r \in Rooms :
         (step'.op = "unsub" /\ step'.room = r
            /\ r \notin subscriptions /\ r \notin pendingSubscriptions) =>
            /\ ops' = <<>>
            /\ messageQueue' = messageQueue
            /\ LedgerUnchanged
            /\ logs' = <<Log("User", "Attempt to unsubscribe from a room that was not subscribed")>>]_vars

\* unsub(r) was called on a room in neither set, the queue holding frames.
C5_Witness ==
    /\ step.op = "unsub"
    /\ step.was = "none"
    /\ messageQueue # <<>>
    /\ ops = <<>>

\* C6: pub(room, payload) produces exactly one publish frame for the room,
\* transmitted when open and queued otherwise, whatever the ledger says of
\* the room, and leaves the ledger alone.
C6_PubAlwaysSends ==
    [][\A r \in Rooms :
         (step'.op = "pub" /\ step'.room = r) =>
            /\ step'.text = PublishFrame(r, nextPayload)
            /\ SentOnce(PublishFrame(r, nextPayload))
            /\ LedgerUnchanged]_vars

\* pub has transmitted a frame for a room unknown to the ledger.
C6_Witness ==
    /\ step.op = "pub"
    /\ step.was = "none"
    /\ ops = <<Eff("tx", PublishFrame("lobby", 1), "")>>

\* C7: send(m) transmits m at once, the queue unchanged, when the session
\* holds an open connection; in every other case (no connection, or one that
\* is connecting, closing or closed) it pushes m on the tail of the queue and
\* transmits nothing. It never throws.
C7_SendOrQueue ==
    [][step'.op = "send" =>
         /\ SentOnce(step'.text)
         /\ \A i \in 1..Len(ops') : ops'[i].k # "throw"]_vars

\* send(m) has queued m behind another frame, the connection closing.
C7_Witness ==
    /\ step.op = "send"
    /\ step.sock = "CLOSING"
    /\ Len(messageQueue) = 2
    /\ messageQueue[2] = step.text
    /\ ops = <<Eff("enq", step.text, "")>>

\* C8: the queue only grows at its tail, and the open handler transmits the
\* whole queue in queue order before anything else it sends and before the
\* connect listeners run; none of these frames is left in the queue.
C8_FlushInOrderOnOpen ==
    [][/\ \/ messageQueue' = messageQueue
          \/ messageQueue' = <<>>
          \/ \E text \in {SubscribeFrame(r) : r \in Rooms}
                       \cup {UnsubscribeFrame(r) : r \in Rooms}
                       \cup {PublishFrame(r, p) : r \in Rooms, p \in Payloads}
                       \cup {Stringify(m) : m \in AppMessages} :
                messageQueue' = Append(messageQueue, text)
       /\ step'.op = "open" =>
            LET n == Len(messageQueue) IN
            /\ Len(ops') > n
            /\ \A i \in 1..n : ops'[i] = Eff("tx", messageQueue[i], "")
            /\ \E i \in (n + 1)..Len(ops') : ops'[i] = Eff("fire", NoText, "connect")
            /\ \A i \in 1..Len(messageQueue') :
                  \E j \in (n + 1)..Len(ops') : ops'[j] = Eff("enq", messageQueue'[i], "")
      ]_vars

\* An open has transmitted two different queued frames, in order, and then
\* run the connect listeners.
C8_Witness ==
    /\ step.op = "open"
    /\ Len(ops) = 3
    /\ ops[1].k = "tx" /\ ops[1].f = SubscribeFrame("lobby")
    /\ ops[2].k = "tx" /\ ops[2].f = PublishFrame("lobby", 1)
    /\ ops[3] = Eff("fire", NoText, "connect")
    /\ messageQueue = <<>>

\* C9: a publish frame issued by pub while no connection was open (no
\* disconnect or cleanup since) is never transmitted twice, and once a
\* transport open has been handled it has been transmitted exactly once and
\* is no longer in the queue.
C9_QueuedPublishExactlyOnce ==
    \A p \in tracked :
        /\ txCount[p] <= 1
        /\ p \in opened =>
             /\ txCount[p] = 1
             /\ \A i \in 1..Len(messageQueue) :
                   ~(messageQueue[i][1] = "publish" /\ messageQueue[i][3] = p)

\* The frame was queued, a connection was closed (its reconnect timer is
\* still pending), and the open that followed has transmitted the frame.
C9_Witness ==
    /\ step.op = "open"
    /\ reconnectTimers = 1
    /\ 1 \in opened
    /\ txCount[1] = 1
    /\ ops[1] = Eff("tx", PublishFrame("lobby", 1), "")
    /\ messageQueue = <<>>

\* C10: a flush run while the session holds no connection, or one that is
\* not open, leaves the queue as it was; a flush empties a non-empty queue
\* only when the connection is open at its end.
C10_FlushKeepsQueueUnlessOpen ==
    [][/\ (step'.op = "flush" /\ socket # "OPEN") => messageQueue' = messageQueue
       /\ (step'.op \in {"flush", "open"} /\ messageQueue # <<>>
             /\ messageQueue' = <<>>) => socket' = "OPEN"]_vars

\* A flush has run with no connection on a queue of two frames, which it
\* has left in place.
C10_Witness ==
    /\ step.op = "flush"
    /\ step.sock = NoSocket
    /\ Len(messageQueue) = 2
    /\ Len(ops) = 2
    /\ \A i \in 1..2 : ops[i] = Eff("skip", messageQueue[i], "")

\* The invocations of the listeners of an event type among a handler's
\* effects, in program order.
RECURSIVE CallsOf(_, _)
CallsOf(effects, ev) ==
    IF effects = <<>> THEN <<>>
    ELSE IF Head(effects).k = "call" /\ Head(effects).ev = ev
    THEN <<Head(effects)>> \o CallsOf(Tail(effects), ev)
    ELSE CallsOf(Tail(effects), ev)

\* Every listener of the event type was invoked once, in registration order,
\* with the given data, and no other invocation for that type was made.
InvokedOnce(effects, ev, data) ==
    CallsOf(effects, ev) = [h \in 1..eventHandlers[ev] |-> Call(ev, data, h)]

\* C11: the step that handles a transport open ends with the connection
\* state connected and the reconnect counter 0, and invokes every connect
\* listener exactly once.
C11_OpenResets ==
    [][step'.op = "open" =>
         /\ connectionState' = "connected"
         /\ reconnectAttempts' = 0
         /\ InvokedOnce(ops', "connect", NoText)]_vars

\* An open was handled after a close had raised the counter (its reconnect
\* timer is still pending, the application having called connect() itself):
\* the counter is back to 0 and the connect listener ran.
C11_Witness ==
    /\ step.op = "open"
    /\ reconnectTimers = 1
    /\ reconnectAttempts = 0
    /\ connectionState = "connected"
    /\ eventHandlers["connect"] > 0
    /\ CallsOf(ops, "connect") # <<>>

\* C12: the step that handles a transport open transmits, on the connection
\* that has just opened, a subscribe frame for every room that was pending
\* or confirmed when the open arrived.
C12_OpenResubscribes ==
    [][step'.op = "open" =>
         \A r \in subscriptions \cup pendingSubscriptions :
            \E i \in 1..Len(ops') : ops'[i] = Eff("tx", SubscribeFrame(r), "")]_vars

\* An open was handled with the room confirmed, and nothing was transmitted
\* or queued for it: the replay found the room in the ledger and only logged.
C12_Witness ==
    /\ step.op = "open"
    /\ subscriptions = {"lobby"}
    /\ \A i \in 1..Len(ops) : ops[i].k \notin {"tx", "enq"}
    /\ \E i \in 1..Len(logs) : logs[i] = Log("User", "Already subscribed or pending")

\* C13: at a reopen every room the ledger held (pending or confirmed) is in
\* pending afterwards and not in confirmed: no room is lost and none is in
\* both sets.
C13_RoomsCycleToPending ==
    [][step'.op = "open" =>
         /\ \A r \in subscriptions \cup pendingSubscriptions :
               r \in pendingSubscriptions' /\ r \notin subscriptions'
         /\ subscriptions' \cap pendingSubscriptions' = {}]_vars

\* A connection was closed and the next one has opened (the reconnect timer
\* of the close has fired) with the room confirmed: it is still confirmed,
\* not pending.
C13_Witness ==
    /\ step.op = "open"
    /\ reconnectTimers = 0
    /\ subscriptions = {"lobby"}
    /\ pendingSubscriptions = {}
    /\ logs[Len(logs)] = Log("User", "Already subscribed or pending")

\* C14: the step that handles a transport close ends with the state closed
\* and fires the close event; it arms a reconnect timer and increments the
\* counter when the state before the step was not connecting, and does
\* neither when it was connecting.
C14_CloseSchedulesUnlessConnecting ==
    [][step'.op = "close" =>
         /\ connectionState' = "closed"
         /\ \E i \in 1..Len(ops') : ops'[i] = Eff("fire", NoText, "close")
         /\ IF connectionState # "connecting"
            THEN /\ reconnectTimers' = reconnectTimers + 1
                 /\ reconnectAttempts' = reconnectAttempts + 1
            ELSE /\ reconnectTimers' = reconnectTimers
                 /\ reconnectAttempts' = reconnectAttempts]_vars

\* The close event of a connection that connect() had replaced was handled
\* while the new connection was still connecting: a reconnect timer is armed
\* and the counter incremented all the same.
C14_Witness ==
    /\ step.op = "close"
    /\ step.sock = "orphan"
    /\ step.was = "connecting"
    /\ socket = "CONNECTING"
    /\ connectionState = "closed"
    /\ reconnectTimers = 1
    /\ reconnectAttempts = 1

\* C15: the reconnect counter is never negative; it is 0 after every step
\* that handles a transport open; every close step that arms a reconnect
\* timer raises it by exactly 1, the reconnect flag on or off; changing the
\* flag leaves it as it is; and nothing but an open, a close or cleanup()
\* changes it.
C15_CounterDiscipline ==
    [][/\ reconnectAttempts >= 0 /\ reconnectAttempts' >= 0
       /\ step'.op = "open" => reconnectAttempts' = 0
       /\ (step'.op = "close" /\ reconnectTimers' = reconnectTimers + 1) =>
             reconnectAttempts' = reconnectAttempts + 1
       /\ step'.op = "newOptions" => reconnectAttempts' = reconnectAttempts
       /\ reconnectAttempts' # reconnectAttempts =>
             step'.op \in {"open", "close", "cleanup"}]_vars

\* A close has armed a timer and raised the counter with the flag off.
C15_Witness ==
    /\ step.op = "close"
    /\ ~reconnect
    /\ reconnectTimers = 1
    /\ reconnectAttempts = 1
    /\ step.delay = reconnectDelay(0)

\* The delays the sequence 10, 20, 40, 50, 50, 50, ... gives to the counter
\* values 0, 1, 2, ...
TestDelay(n) == IF n = 0 THEN 10 ELSE IF n = 1 THEN 20 ELSE IF n = 2 THEN 40 ELSE 50

\* C16: a close handled with counter value n (the counter is n + 1 after it)
\* arms a timer of min(reconnectDelay * reconnectMultiplier^n,
\* maxReconnectDelay): with base 10, multiplier 2 and max 50 the delays of
\* consecutive closes are 10, 20, 40, 50, 50, ...; the delay is never
\* negative and never above maxReconnectDelay.
C16_BackoffDelays ==
    step.op = "close" =>
        LET n == reconnectAttempts - 1 IN
        /\ n >= 0
        /\ \/ step.delay = options.reconnectDelay * Pow(options.reconnectMultiplier, n)
              /\ step.delay <= options.maxReconnectDelay
           \/ step.delay = options.maxReconnectDelay
              /\ step.delay <= options.reconnectDelay * Pow(options.reconnectMultiplier, n)
        /\ options = TestOptions => step.delay = TestDelay(n)
        /\ step.delay >= 0
        /\ step.delay <= options.maxReconnectDelay

\* The fifth consecutive close with base 10, multiplier 2, max 50: the
\* delay is the ceiling 50, not 10 * 2^4.
C16_Witness ==
    /\ step.op = "close"
    /\ options = TestOptions
    /\ reconnectAttempts = 5
    /\ step.delay = 50
    /\ reconnectDelay_Uncapped(4) > 50

\* C17: the step in which a reconnect timer fires calls connect() (a new
\* connection in state connecting, the keepalive rearmed) when the reconnect
\* flag is on at that moment, and does nothing at all when it is off; the
\* value the flag had when the timer was armed plays no part.
C17_TimerObeysFlagAtFire ==
    [][step'.op = "timer" =>
         /\ reconnectTimers' = reconnectTimers - 1
         /\ IF reconnect
            THEN /\ socket' = "CONNECTING"
                 /\ connectionState' = "connecting"
                 /\ pingInterval'
                 /\ \E i \in 1..Len(logs') :
                       logs'[i] = Log("Client", "Attempting to connect")
            ELSE /\ socket' = socket
                 /\ connectionState' = connectionState
                 /\ orphans' = orphans
                 /\ pingInterval' = pingInterval
                 /\ logs' = <<>>]_vars

\* A reconnect timer has fired with the flag off after the close of a
\* connection: no attempt was made, the closed connection is still held.
C17_Witness ==
    /\ step.op = "timer"
    /\ step.was = "idle"
    /\ ~reconnect
    /\ socket = "CLOSED"
    /\ connectionState = "closed"
    /\ reconnectTimers = 0
    /\ reconnectAttempts = 1

\* C18: with the reconnect flag on and no disconnect() or cleanup(), every
\* handled close is followed in the end by a reconnect timer firing into
\* connect(), after any number of failed attempts in a row; and every open
\* the remote grants ends in state connected.
C18_ReconnectNeverStops ==
    /\ (step.op = "close" /\ reconnect)
          ~> (step.op = "timer" /\ step.was = "connect" /\ socket = "CONNECTING")
    /\ [][step'.op = "open" => connectionState' = "connected"]_vars

\* After three failed attempts in a row the timer has fired once more and a
\* fourth attempt is in progress.
C18_Witness ==
    /\ step.op = "timer"
    /\ step.was = "connect"
    /\ reconnect
    /\ reconnectAttempts = 3
    /\ socket = "CONNECTING"
    /\ connectionState = "connecting"

\* C19: the step that handles a transport error ends with the state error
\* and invokes every error listener once with the error event, and that is
\* all: the connection held, the replaced connections, the timers, the
\* reconnect counter, the queue and both ledger sets are as before, and
\* nothing is transmitted.
C19_ErrorOnlyReports ==
    [][step'.op = "error" =>
         /\ connectionState' = "error"
         /\ InvokedOnce(ops', "error", ErrorEvent)
         /\ \A i \in 1..Len(ops') : ops'[i].k \in {"fire", "call"} /\ ops'[i].ev = "error"
         /\ socket' = socket
         /\ orphans' = orphans
         /\ reconnectTimers' = reconnectTimers
         /\ pingInterval' = pingInterval
         /\ reconnectAttempts' = reconnectAttempts
         /\ messageQueue' = messageQueue
         /\ LedgerUnchanged]_vars

\* An error was handled on the open connection of a session with a confirmed
\* room and a frame in its queue: the listener got the event, the connection
\* is still open and held.
C19_Witness ==
    /\ step.op = "error"
    /\ step.sock = "held"
    /\ connectionState = "error"
    /\ socket = "OPEN"
    /\ subscriptions = {"lobby"}
    /\ reconnectTimers = 0
    /\ CallsOf(ops, "error") = <<Call("error", ErrorEvent, 1)>>

\* C20: the step that runs disconnect() ends, whatever the state and the
\* connection before it, with the state closed, no connection held, the
\* keepalive timer cancelled, the queue empty and both ledger sets empty.
C20_DisconnectClears ==
    [][step'.op = "disconnect" =>
         /\ connectionState' = "closed"
         /\ socket' = NoSocket
         /\ ~pingInterval'
         /\ messageQueue' = <<>>
         /\ subscriptions' = {}
         /\ pendingSubscriptions' = {}]_vars

\* disconnect() has run on a session whose connection the transport had
\* closed already: everything is cleared, but the closed connection is
\* still held.
C20_Witness ==
    /\ step.op = "disconnect"
    /\ step.sock = "CLOSED"
    /\ socket = "CLOSED"
    /\ connectionState = "closed"
    /\ ~pingInterval
    /\ messageQueue = <<>>
    /\ subscriptions \cup pendingSubscriptions = {}

\* C21: from disconnect() until the application calls connect(), no step
\* arms a reconnect timer and no step but the application's connect() call
\* starts a connection, the reconnect flag on or off; the step that handles
\* the close event of the connection disconnect() closed is one of them.
C21_NoReconnectAfterDisconnect ==
    [][teardown = "disconnect" =>
         /\ reconnectTimers' <= reconnectTimers
         /\ socket' = "CONNECTING" => step'.op = "connect"]_vars

\* disconnect() has closed the connection, and the close event of that
\* connection, delivered afterwards, has armed a reconnect timer.
C21_Witness ==
    /\ teardown = "disconnect"
    /\ step.op = "close"
    /\ step.sock = "orphan"
    /\ socket = NoSocket
    /\ reconnectTimers = 1
    /\ reconnectAttempts = 1

\* C22: right after cleanup() the session holds no connection object, its
\* state is closed, its keepalive handle is null, its queue and both
\* subscription sets are empty and its reconnect counter is 0.
C22_CleanupResets ==
    step.op = "cleanup" =>
        /\ socket = NoSocket
        /\ connectionState = "closed"
        /\ ~pingInterval
        /\ messageQueue = <<>>
        /\ subscriptions = {}
        /\ pendingSubscriptions = {}
        /\ reconnectAttempts = 0

\* cleanup() has run on a session that held a connecting socket after a
\* close had armed a reconnect timer.
C22_Witness ==
    /\ step.op = "cleanup"
    /\ step.sock = "CONNECTING"
    /\ reconnectTimers = 1

\* The steps the application does not take: timers and transport callbacks.
Callbacks == {"open", "message", "error", "close", "closing", "timer", "ping"}

\* C23: cleanup() leaves no keepalive interval and no reconnect timer
\* pending, and from cleanup() until the next call of the application no
\* timer or transport callback opens a connection, transmits or queues a
\* frame, or moves the state away from closed.
C23_CleanupIsTerminal ==
    [][/\ step'.op = "cleanup" => reconnectTimers' = 0 /\ intervals' = 0
       /\ (teardown = "cleanup" /\ step'.op \in Callbacks) =>
             /\ socket' = NoSocket
             /\ connectionState' = "closed"
             /\ \A i \in 1..Len(ops') : ops'[i].k \notin {"tx", "enq"}]_vars

\* cleanup() has run with the reconnect flag on and has left pending the
\* reconnect timer an earlier close armed.
C23_Witness ==
    /\ step.op = "cleanup"
    /\ teardown = "cleanup"
    /\ reconnect
    /\ reconnectTimers = 1
    /\ intervals = 0

\* The connections that are connecting or open: the held one if it is, and
\* the dropped ones that still are.
LiveConnections ==
    (IF socket \in {"CONNECTING", "OPEN"} THEN 1 ELSE 0) + strays

\* C24: at most one connection is connecting or open at any time, and every
\* connection the session no longer references is closing or closed;
\* connect() leaves the session holding the new connection only.
C24_OneLiveConnection ==
    /\ LiveConnections <= 1
    /\ strays = 0
    /\ step.op = "connect" => socket = "CONNECTING"

\* connect() has been called while the session held an open connection.
C24_Witness ==
    /\ step.op = "connect"
    /\ step.sock = "OPEN"
    /\ socket = "CONNECTING"
    /\ orphans = 1

\* C25: at most one reconnect timer is pending at any time.
C25_OneReconnectTimer == reconnectTimers <= 1

\* A close event has armed a reconnect timer while an earlier one was
\* still pending.
C25_Witness ==
    /\ step.op = "close"
    /\ reconnectTimers = 2

\* C26: at most one keepalive interval is active at any time, and it is the
\* one whose handle the session holds; disconnect() and cleanup() leave
\* none.
C26_OneKeepalive ==
    /\ intervals <= 1
    /\ intervals = 1 <=> pingInterval
    /\ step.op \in {"disconnect", "cleanup"} => intervals = 0

\* connect() has been called on a session with an open connection, whose
\* keepalive interval was running, and one interval runs afterwards.
C26_Witness ==
    /\ step.op = "connect"
    /\ step.sock = "OPEN"
    /\ pingInterval
    /\ intervals = 1

\* C27: for every inbound frame that parses, subscribed and pong frames
\* included, the message listeners run first, each once and in order with
\* the frame's payload: before the ledger is updated and before a handler
\* of the frame's action runs.
C27_MessageListenersFirst ==
    [][(step'.op = "message" /\ ~ParseFails(step'.text)) =>
         LET n == eventHandlers["message"]
         IN  /\ Len(ops') >= 1 + n
             /\ ops'[1] = Eff("fire", step'.text, "message")
             /\ \A h \in 1..n : ops'[1 + h] = Call("message", step'.text, h)
             /\ \A i \in (n + 2)..Len(ops') : ops'[i].ev # "message"
             /\ subscriptions' # subscriptions =>
                   \E i \in (n + 2)..Len(ops') : ops'[i].k = "confirm"]_vars

\* An acknowledgement has arrived at a session with a message listener:
\* the listener ran on the frame, then the room was confirmed.
C27_Witness ==
    /\ step.op = "message"
    /\ step.text = SubscribedFrame("lobby")
    /\ eventHandlers["message"] = 1
    /\ ops = <<Eff("fire", SubscribedFrame("lobby"), "message"),
               Call("message", SubscribedFrame("lobby"), 1),
               Eff("confirm", "lobby", "")>>

\* The remote's answer to a keepalive ping.
PongFrame == Stringify(MessageData("pong", NoRoom, NoPayload))

\* C28: an inbound subscribed frame that names a room and an inbound pong
\* frame stop at the protocol layer: no handler registered for 'subscribed'
\* or for 'pong' runs for them, and a pong frame leaves the connection
\* state, the reconnect counter, the queue and the ledger as they were.
C28_ProtocolFramesConsumed ==
    [][/\ (/\ step'.op = "message"
           /\ step'.text \in {SubscribedFrame(r) : r \in Rooms} \cup {PongFrame}) =>
             /\ CallsOf(ops', "subscribed") = <<>>
             /\ CallsOf(ops', "pong") = <<>>
             /\ \A i \in 1..Len(ops') : ops'[i].k # "throw"
       /\ (step'.op = "message" /\ step'.text = PongFrame) =>
             /\ LedgerUnchanged
             /\ UNCHANGED <<connectionState, reconnectAttempts, messageQueue,
                            socket, reconnectTimers, pingInterval>>]_vars

\* A pong frame has arrived at a session with a handler registered for
\* 'pong' and one for 'message': the message listener alone has run.
C28_Witness ==
    /\ step.op = "message"
    /\ step.text = PongFrame
    /\ eventHandlers["pong"] = 1
    /\ eventHandlers["subscribed"] = 1
    /\ ops = <<Eff("fire", PongFrame, "message"), Call("message", PongFrame, 1)>>
    /\ logs = <<Log("Info", "Pong received")>>

\* A frame of a business action.
ChatFrame == Stringify(MessageData("chat", "lobby", NoPayload))

\* The frames _onMessage stops at: a pong, and a subscribed frame that
\* names a room.
Consumed(data) ==
    \/ data.action = "pong"
    \/ data.action = "subscribed" /\ data.room # NoRoom

\* C29: for an inbound frame that parses and is neither a pong nor an
\* acknowledgement with a room, the handlers registered for its action run
\* once each, in registration order, with the payload; when none is
\* registered the frame is handled without an exception and changes nothing.
C29_DispatchOrIgnore ==
    [][(/\ step'.op = "message"
        /\ ~ParseFails(step'.text)
        /\ ~Consumed(Parse(step'.text))) =>
          LET action == Parse(step'.text).action
          IN  /\ \A i \in 1..Len(ops') : ops'[i].k # "throw"
              /\ IF eventHandlers[action] > 0
                 THEN InvokedOnce(ops', action, step'.text)
                 ELSE CallsOf(ops', action) = <<>>
              /\ LedgerUnchanged
              /\ UNCHANGED <<connectionState, reconnectAttempts,
                             messageQueue>>]_vars

\* A frame of an action nobody registered a handler for has arrived, and
\* _onMessage has thrown on it.
C29_Witness ==
    /\ step.op = "message"
    /\ step.text = ChatFrame
    /\ eventHandlers["chat"] = 0
    /\ ops = <<Eff("fire", ChatFrame, "message"),
               Eff("throw", ChatFrame, "TypeError")>>

\* C30: an inbound frame that does not parse leaves one error log entry
\* and nothing else: no listener and no handler runs, and the connection
\* state, the reconnect counter, the queue and the ledger stay as they were.
C30_MalformedFrameDropped ==
    [][(step'.op = "message" /\ ParseFails(step'.text)) =>
         /\ logs' = <<Log("Error", "Error parsing message")>>
         /\ ops' = <<>>
         /\ LedgerUnchanged
         /\ UNCHANGED <<connectionState, reconnectAttempts, messageQueue,
                        socket>>]_vars

\* A text that is not JSON has arrived at a session with message and
\* error listeners, and none of them has run.
C30_Witness ==
    /\ step.op = "message"
    /\ step.text = Malformed
    /\ eventHandlers["message"] = 1
    /\ eventHandlers["error"] = 1
    /\ ops = <<>>
    /\ logs = <<Log("Error", "Error parsing message")>>

\* C31: a session that has just been constructed, before any call or
\* transport event, is in state connecting; when it was constructed without
\* connecting (autoconnect off) it holds no socket and no keepalive
\* interval runs, and its state is connecting all the same.
C31_ConstructedConnecting ==
    step.op = "new" =>
        /\ connectionState = "connecting"
        /\ socket \in {NoSocket, "CONNECTING"}
        /\ socket = NoSocket =>
              /\ ~pingInterval
              /\ intervals = 0
              /\ orphans = 0
              /\ strays = 0

\* A session constructed with autoconnect off.
C31_Witness ==
    /\ step.op = "new"
    /\ socket = NoSocket
    /\ connectionState = "connecting"
    /\ ~pingInterval

\* C32: the state connected is entered from the state connecting only, and
\* a session in state error or closed gets back to connecting through
\* connect() only, called by the application or by the reconnect timer.
C32_StateTransitions ==
    [][/\ (connectionState # "connected" /\ connectionState' = "connected") =>
             connectionState = "connecting"
       /\ (connectionState \in {"error", "closed"}
             /\ connectionState' = "connecting") =>
             step'.op \in {"connect", "timer"}]_vars

\* The close event of a socket connect() had replaced has set the state
\* to closed while the new socket is still connecting: its open event
\* will take the state from closed to connected.
C32_Witness ==
    /\ step.op = "close"
    /\ step.sock = "orphan"
    /\ step.was = "connecting"
    /\ connectionState = "closed"
    /\ socket = "CONNECTING"
    /\ ENABLED TransportOpen

\* The keepalive frame.
PingFrame == Stringify(MessageData("ping", NoRoom, NoPayload))

\* C33: a keepalive tick that fires while the session's connection is open
\* transmits one ping frame on it, and nothing else, and leaves the queue
\* as it was.
C33_PingWhenOpen ==
    [][(step'.op = "ping" /\ socket = "OPEN") =>
         /\ ops' = <<Eff("tx", PingFrame, "")>>
         /\ messageQueue' = messageQueue
         /\ socket' = "OPEN"]_vars

\* A keepalive tick has fired on an open connection and has transmitted
\* its ping.
C33_Witness ==
    /\ step.op = "ping"
    /\ step.sock = "OPEN"
    /\ connectionState = "connected"
    /\ ops = <<Eff("tx", PingFrame, "")>>

\* The text of a list of characters.
RECURSIVE Text(_)
Text(chars) == IF chars = <<>> THEN "" ELSE Head(chars) \o Text(Tail(chars))

\* C34: an address that begins with '/' resolves to 'wss://', the
\* hostname, ':' and the port when the port is not empty, and the address;
\* any other address resolves to itself. '/chat' on example.com, port
\* 8080, resolves to wss://example.com:8080/chat.
C34_AddressResolution ==
    step.op = "new" =>
        LET address == Text(step.text)
            host == Text(location.hostname)
            port == Text(location.port)
        IN  /\ (step.text # <<>> /\ Head(step.text) = "/") =>
                  Text(serverUrl) = "wss://" \o host
                      \o (IF port = "" THEN "" ELSE ":" \o port) \o address
            /\ (step.text = <<>> \/ Head(step.text) # "/") =>
                  serverUrl = step.text
            /\ (address = "/chat" /\ host = "example.com" /\ port = "8080") =>
                  Text(serverUrl) = "wss://example.com:8080/chat"
            /\ (address = "/chat" /\ host = "example.com" /\ port = "") =>
                  Text(serverUrl) = "wss://example.com/chat"

\* A session constructed with '/chat' on example.com, port 8080.
C34_Witness ==
    /\ step.op = "new"
    /\ Text(step.text) = "/chat"
    /\ Text(location.hostname) = "example.com"
    /\ Text(location.port) = "8080"
    /\ Text(serverUrl) = "wss://example.com:8080/chat"

\* connect() has just replaced a socket that was not closed yet, and that
\* socket is the only one the session has dropped.
JustReplaced ==
    /\ \/ step.op = "connect"
       \/ step.op = "timer" /\ step.was = "connect"
    /\ step.sock \in {"CONNECTING", "OPEN", "CLOSING"}
    /\ orphans = 1

\* C35: an event of the socket connect() has replaced, delivered after the
\* replacement, leaves the connection state, the reconnect counter, the
\* queue and the ledger as they were and arms no reconnect timer.
C35_ReplacedSocketIsSilent ==
    [][(JustReplaced /\ step'.sock = "orphan" /\ step'.op \in Callbacks) =>
         /\ LedgerUnchanged
         /\ UNCHANGED <<connectionState, reconnectAttempts, messageQueue,
                        reconnectTimers>>]_vars

\* The close event of a replaced socket has run _onClose while the new
\* socket was connecting: the state is closed and a reconnect timer is
\* armed.
C35_Witness ==
    /\ step.op = "close"
    /\ step.sock = "orphan"
    /\ step.was = "connecting"
    /\ teardown = "none"
    /\ socket = "CONNECTING"
    /\ reconnectTimers = 1
    /\ reconnectAttempts = 1

\* C36: a subscribed frame for a room that is not pending (never
\* subscribed, confirmed already, or unsubscribed before the frame came)
\* leaves both sets of the ledger as they were; after sub(r), unsub(r) and
\* a late acknowledgement r is in neither set.
C36_StrayAckIgnored ==
    [][\A r \in Rooms :
         (/\ step'.op = "message"
          /\ step'.text = SubscribedFrame(r)
          /\ r \notin pendingSubscriptions) =>
            /\ LedgerUnchanged
            /\ \A i \in 1..Len(ops') : ops'[i].k # "confirm"]_vars

\* An acknowledgement has arrived for a room that is in neither set, and
\* the room is in neither set afterwards.
C36_Witness ==
    /\ step.op = "message"
    /\ step.text = SubscribedFrame("lobby")
    /\ subscriptions = {}
    /\ pendingSubscriptions = {}
    /\ ops = <<Eff("fire", SubscribedFrame("lobby"), "message")>>

\* C37: when the remote answers every subscribe frame it gets and the
\* connection opens in the end and stays open, every room the application
\* has subscribed and not unsubscribed is confirmed in the end, also when
\* the connection its subscribe frame went out on was lost before the
\* answer came.
C37_SubscriptionsSurvive ==
    <>[](socket = "OPEN") =>
        \A r \in Rooms : (r \in pendingSubscriptions) ~> (r \in subscriptions)

\* The connection is open again after a loss, the room whose subscribe
\* frame went out on the lost connection is still pending, nothing is
\* queued and the remote owes no answer.
C37_Witness ==
    /\ step.op = "open"
    /\ socket = "OPEN"
    /\ pendingSubscriptions = {"lobby"}
    /\ subscriptions = {}
    /\ messageQueue = <<>>
    /\ owed = {}
    /\ \A i \in 1..Len(ops) : ops[i].k # "tx"

\* disconnect() has just closed a socket that was connecting or open, and
\* that socket is the only one the session has dropped.
JustDisconnected ==
    /\ step.op = "disconnect"
    /\ step.sock \in {"CONNECTING", "OPEN"}
    /\ orphans = 1

\* C38: one disconnect() on a session whose connection is connecting or
\* open has the close listeners run once each for that disconnection:
\* once in disconnect(), and not again when the close event of the
\* connection it closed is delivered.
C38_CloseListenersOnce ==
    [][/\ JustDisconnected' => InvokedOnce(ops', "close", NoText)
       /\ (JustDisconnected /\ step'.op = "close" /\ step'.sock = "orphan") =>
             CallsOf(ops', "close") = <<>>]_vars

\* The close event of the connection disconnect() closed has been
\* delivered next, and the close listener has run a second time.
C38_Witness ==
    /\ step.op = "close"
    /\ step.sock = "orphan"
    /\ step.was = "closed"
    /\ teardown = "disconnect"
    /\ socket = NoSocket
    /\ orphans = 0
    /\ eventHandlers["close"] = 1
    /\ ops = <<Eff("fire", NoText, "close"), Call("close", NoText, 1)>>

\* C39: a transport close or error leaves the keepalive interval running
\* (only connect(), disconnect() and cleanup() stop or replace it); a tick
\* that fires while the session's connection is not open appends one ping
\* frame to the queue and transmits nothing; and the next open transmits
\* the queued pings and application frames in queue order.
C39_PingsQueueWhileDown ==
    [][/\ step'.op \in {"close", "error"} =>
             UNCHANGED <<pingInterval, intervals>>
       /\ (pingInterval' # pingInterval \/ intervals' # intervals) =>
             step'.op \in {"connect", "timer", "disconnect", "cleanup"}
       /\ (step'.op = "ping" /\ socket # "OPEN") =>
             /\ ops' = <<Eff("enq", PingFrame, "")>>
             /\ messageQueue' = Append(messageQueue, PingFrame)
       /\ step'.op = "open" =>
             /\ Len(ops') >= Len(messageQueue)
             /\ \A i \in 1..Len(messageQueue) :
                   ops'[i] = Eff("tx", messageQueue[i], "")
             /\ messageQueue' = <<>>]_vars

\* An open has transmitted, in queue order, a subscribe frame and the ping
\* a keepalive tick had queued behind it while the connection was down.
C39_Witness ==
    /\ step.op = "open"
    /\ pingInterval
    /\ ops = <<Eff("tx", SubscribeFrame("lobby"), ""),
               Eff("tx", PingFrame, ""),
               Eff("fire", NoText, "connect")>>
    /\ messageQueue = <<>>

\* C40: in every reachable state in which the connection state is closed,
\* connected() is false: the session holds no open socket.
C40_ClosedMeansNotConnected ==
    connectionState = "closed" => ~connected(socket)

\* The close event of a replaced socket has set the state to closed while
\* the socket the session holds is open.
C40_Witness ==
    /\ step.op = "close"
    /\ step.sock = "orphan"
    /\ step.was = "connected"
    /\ connectionState = "closed"
    /\ socket = "OPEN"
    /\ connected(socket)

====
